---- MODULE Spec2Model ----
(***************************************************************************)
(* Model of stock-metrics-website:                                         *)
(*   src/scripts/build_fundamentals.py  EDGAR companyfacts -> RAW document *)
(*   src/build_metrics_json.py          CSV row -> payload document        *)
(*                                                                         *)
(* Python values are tagged records [t, n, s]: t is the kind ("absent" for *)
(* a key that is not in a dict, "none", "int", "float", "str"), n the      *)
(* number and s the text.  A result that may be an exception carries the   *)
(* exception's class name in exc ("" when the call returned).              *)
(***************************************************************************)
EXTENDS Integers, Sequences, FiniteSets, TLC

VARIABLES
    call,           \* the operation applied last, with its arguments
    ret,            \* what that operation returned (or raised)
    pc,             \* batch main: position in the loop body
    idx,            \* batch main: index into tickers of the current ticker
    tickers,        \* batch main: the configured ticker list
    cik_map,        \* batch main: the configured ticker -> CIK mapping
    facts_in,       \* batch main: what fetch_company_facts returned
    raw_out,        \* batch main: what build_raw_from_edgar returned
    trail,          \* batch main: per ticker, what happened to it (a log)
    data_dir        \* data/<TICKER>.json: what each file holds

vars ==
    <<call, ret, pc, idx, tickers, cik_map, facts_in, raw_out, trail, data_dir>>

----------------------------------------------------------------------------
(* Python values *)

Absent == [t |-> "absent", n |-> 0, s |-> ""]
PyNone == [t |-> "none", n |-> 0, s |-> ""]
PyInt(n) == [t |-> "int", n |-> n, s |-> ""]
PyFloat(n) == [t |-> "float", n |-> n, s |-> ""]
PyNaN == [t |-> "float", n |-> 0, s |-> "nan"]
PyStr(s) == [t |-> "str", n |-> 0, s |-> s]

\* d.get(key): None when the key is absent
Get(v) == IF v = Absent THEN PyNone ELSE v

\* d.get(key, default)
GetDefault(v, d) == IF v = Absent THEN d ELSE v

\* bool(v) as `or` and `not` apply it
Truthy(v) ==
    CASE v.t = "none" -> FALSE
      [] v.t = "int" -> v.n # 0
      [] v.t = "float" -> v.n # 0 \/ v.s = "nan"
      [] v.t = "str" -> v.s # ""
      [] OTHER -> FALSE

\* str(v) for the values asOf is built from
PyStrOf(v) ==
    CASE v.t = "int" -> PyStr(ToString(v.n))
      [] v.t = "none" -> PyStr("None")
      [] OTHER -> v

\* x or y, where y is evaluated only when x is falsy (results with exc)
OrElse(x, y) == IF x.exc # "" THEN x ELSE IF Truthy(x.val) THEN x ELSE y

----------------------------------------------------------------------------
(* EDGAR fact table *)

\* one observation of facts["us-gaap"][concept]["units"]["USD"]
Obs(form, fp, fy, val, end) ==
    [form |-> form, fp |-> fp, fy |-> fy, val |-> val, end |-> end]

NoObs == Obs(Absent, Absent, Absent, Absent, Absent)

\* facts["us-gaap"][concept]["units"]["USD"]; a missing key at any level is
\* the KeyError both callers catch
Entries(facts, concept) ==
    IF /\ facts.hasUsGaap
       /\ concept \in DOMAIN facts.usgaap
       /\ facts.usgaap[concept].hasUnits
       /\ facts.usgaap[concept].hasUSD
    THEN [keyError |-> FALSE, entries |-> facts.usgaap[concept].USD]
    ELSE [keyError |-> TRUE, entries |-> <<>>]

\* the filter of pick_latest_annual_entry
IsAnnual(e) ==
    Get(e.form) = PyStr("10-K") /\ Get(e.fp) = PyStr("FY") /\ e.val # Absent

\* the filter of build_multi_year_series
IsAnnualWithFy(e) == IsAnnual(e) /\ e.fy # Absent

\* key=lambda e: e.get("fy", 0)
FyKey(e) == GetDefault(e.fy, PyInt(0))

\* list.sort compares keys with <; with two or more elements every element
\* takes part in a comparison, and None (or a mix of kinds) raises TypeError.
\* The fiscal years of the model are integers or None.
SortRaises(annual) ==
    Len(annual) >= 2 /\ \E i \in 1..Len(annual) : FyKey(annual[i]).t # "int"

\* sorted prefix plus one element, descending by key, equal keys keeping
\* their order (the sort is stable, also with reverse=True)
InsertDescUnstable(sorted, e) ==
    LET k == Cardinality({i \in 1..Len(sorted) : FyKey(sorted[i]).n > FyKey(e).n})
    IN SubSeq(sorted, 1, k) \o <<e>> \o SubSeq(sorted, k + 1, Len(sorted))
InsertDesc(sorted, e) ==
    LET k == Cardinality({i \in 1..Len(sorted) : FyKey(sorted[i]).n >= FyKey(e).n})
    IN SubSeq(sorted, 1, k) \o <<e>> \o SubSeq(sorted, k + 1, Len(sorted))

RECURSIVE SortByFyDesc(_)
SortByFyDesc(annual) ==
    IF annual = <<>> THEN <<>>
    ELSE InsertDesc(SortByFyDesc(SubSeq(annual, 1, Len(annual) - 1)),
                    annual[Len(annual)])

pick_latest_annual_entry(facts, concept) ==
    LET got == Entries(facts, concept)
        annual == SelectSeq(got.entries, IsAnnual)
    IN IF got.keyError \/ annual = <<>>
       THEN [exc |-> "", none |-> TRUE, entry |-> NoObs]
       ELSE IF SortRaises(annual)
       THEN [exc |-> "TypeError", none |-> TRUE, entry |-> NoObs]
       ELSE [exc |-> "", none |-> FALSE, entry |-> SortByFyDesc(annual)[1]]

pick_latest_annual_usd(facts, concept) ==
    LET r == pick_latest_annual_entry(facts, concept)
    IN IF r.exc # "" THEN [exc |-> r.exc, val |-> PyNone]
       ELSE IF r.none THEN [exc |-> "", val |-> PyNone]
       ELSE [exc |-> "", val |-> Get(r.entry.val)]

\* the for loop of build_multi_year_series from position i on
RECURSIVE SeriesLoop(_, _, _, _, _)
SeriesLoop(annual, i, out, seen_years, limit_years) ==
    IF i > Len(annual) THEN out
    ELSE LET e == annual[i]
             out2 == Append(out, [fy |-> e.fy, value |-> e.val])
         IN IF e.fy \in seen_years
            THEN SeriesLoop(annual, i + 1, out, seen_years, limit_years)
            ELSE IF Len(out2) >= limit_years THEN out2
            ELSE SeriesLoop(annual, i + 1, out2, seen_years \cup {e.fy},
                            limit_years)

Reverse(s) == [i \in 1..Len(s) |-> s[Len(s) + 1 - i]]

build_multi_year_series_no_dedup(facts, concept, limit_years) ==
    LET got == Entries(facts, concept)
        annual == SelectSeq(got.entries, IsAnnualWithFy)
        sorted == SortByFyDesc(annual)
        n == IF Len(sorted) < limit_years THEN Len(sorted) ELSE limit_years
    IN IF got.keyError \/ annual = <<>> THEN [exc |-> "", series |-> <<>>]
       ELSE IF SortRaises(annual) THEN [exc |-> "TypeError", series |-> <<>>]
       ELSE [exc |-> "",
             series |-> Reverse([i \in 1..n |->
                          [fy |-> sorted[i].fy, value |-> sorted[i].val]])]
build_multi_year_series(facts, concept, limit_years) ==
    LET got == Entries(facts, concept)
        annual == SelectSeq(got.entries, IsAnnualWithFy)
    IN IF got.keyError \/ annual = <<>> THEN [exc |-> "", series |-> <<>>]
       ELSE IF SortRaises(annual) THEN [exc |-> "TypeError", series |-> <<>>]
       ELSE [exc |-> "",
             series |-> Reverse(SeriesLoop(SortByFyDesc(annual), 1, <<>>, {},
                                           limit_years))]

----------------------------------------------------------------------------
(* build_raw_from_edgar *)

\* company_facts.get("facts", {})
EmptyFacts == [hasUsGaap |-> FALSE, usgaap |-> [c \in {} |-> 0]]
FactsOf(cf) == IF cf.hasFacts THEN cf.facts ELSE EmptyFacts

latest(facts, concept) == pick_latest_annual_usd(facts, concept)

\* a - b and a + b of two numbers: a float as soon as one operand is a
\* float, an int otherwise
PySub(a, b) ==
    IF a.t = "float" \/ b.t = "float" THEN PyFloat(a.n - b.n) ELSE PyInt(a.n - b.n)
PyAdd(a, b) ==
    IF a.t = "float" \/ b.t = "float" THEN PyFloat(a.n + b.n) ELSE PyInt(a.n + b.n)

\* working_capital: set only when both inputs are not None
working_capital(current_assets, current_liabilities) ==
    IF current_assets # PyNone /\ current_liabilities # PyNone
    THEN PySub(current_assets, current_liabilities)
    ELSE PyNone

\* fcf = ocf + capex when both are not None
free_cash_flow_minus_capex(ocf, capex) ==
    IF ocf # PyNone /\ capex # PyNone THEN PySub(ocf, capex) ELSE PyNone
free_cash_flow(ocf, capex) ==
    IF ocf # PyNone /\ capex # PyNone THEN PyAdd(ocf, capex) ELSE PyNone

\* pick_latest_annual_entry(..) or pick_latest_annual_entry(..): a dict is
\* falsy only when empty, None is falsy
EntryOrElse(x, y) ==
    IF x.exc # "" THEN x
    ELSE IF ~x.none /\ x.entry # NoObs THEN x
    ELSE y

\* series or series: an empty list is falsy
SeriesOrElse(x, y) ==
    IF x.exc # "" THEN x ELSE IF x.series # <<>> THEN x ELSE y

\* the asOf block; returns [exc, val]
as_of_fy_first(cf, facts) ==
    LET ref_entry ==
            EntryOrElse(pick_latest_annual_entry(facts, "Assets"),
              EntryOrElse(pick_latest_annual_entry(facts, "Revenues"),
                          pick_latest_annual_entry(facts, "NetIncomeLoss")))
    IN IF ref_entry.exc # "" THEN [exc |-> ref_entry.exc, val |-> PyNone]
       ELSE IF ~ref_entry.none
       THEN [exc |-> "", val |-> PyStrOf(Get(ref_entry.entry.fy))]
       ELSE [exc |-> "", val |-> GetDefault(cf.entityName, PyStr(""))]
as_of(cf, facts) ==
    LET ref_entry ==
            EntryOrElse(pick_latest_annual_entry(facts, "Assets"),
              EntryOrElse(pick_latest_annual_entry(facts, "Revenues"),
                          pick_latest_annual_entry(facts, "NetIncomeLoss")))
    IN IF ref_entry.exc # "" THEN [exc |-> ref_entry.exc, val |-> PyNone]
       ELSE IF ~ref_entry.none
       THEN [exc |-> "",
             val |-> IF Truthy(Get(ref_entry.entry.end))
                     THEN Get(ref_entry.entry.end)
                     ELSE PyStrOf(Get(ref_entry.entry.fy))]
       ELSE [exc |-> "", val |-> GetDefault(cf.entityName, PyStr(""))]

\* the RAW object literal, v holding the values computed above it
RawObject(v) ==
    [asOf |-> v.as_of_v,
     market |->
        [sharePrice |-> PyNone, sharesOutstanding |-> PyNone,
         marketCap |-> PyNone, enterpriseValue |-> PyNone,
         historicalPrices |-> <<>>],
     statements |->
        [incomeStatement |->
            [revenue |-> v.revenue, cogs |-> v.cogs, grossProfit |-> v.gross_profit,
             operatingExpenses |-> PyNone, depreciationAmort |-> PyNone,
             operatingIncomeEBIT |-> v.operating_income, ebitda |-> PyNone,
             interestExpense |-> PyNone, pretaxIncome |-> PyNone,
             netIncome |-> v.net_income, netIncomeExNRI |-> PyNone],
         balanceSheet |->
            [totalAssets |-> v.total_assets,
             totalCurrentAssets |-> v.current_assets,
             cashAndEquivalents |-> v.cash, accountsReceivable |-> PyNone,
             inventory |-> PyNone, otherCurrentAssets |-> PyNone,
             totalLiabilities |-> v.total_liabilities,
             currentLiabilities |-> v.current_liabilities,
             accountsPayable |-> PyNone, longTermDebt |-> v.long_term_debt,
             shortTermDebt |-> v.short_term_debt, shareholdersEquity |-> v.equity,
             investedCapital |-> PyNone],
         cashFlow |->
            [operatingCashFlow |-> v.ocf, freeCashFlow |-> v.fcf,
             capitalExpenditures |-> v.capex, ownerEarnings |-> PyNone,
             dividendsPaid |-> v.dividends, cashFlowFromFinancing |-> PyNone,
             taxRate |-> PyNone]],
     optional |->
        [quality |->
            [retainedEarnings |-> v.retained_earnings,
             workingCapital |-> v.working_capital_v,
             tenYearProfitHistory |-> v.ten_year_profit_history,
             segmentRevenue |-> <<>>],
         multiYearFinancials |->
            [revenue |-> v.revenue_history, ebitda |-> <<>>,
             netIncome |-> v.ten_year_profit_history,
             freeCashFlow |-> v.fcf_history, bookValue |-> <<>>],
         financingDetail |->
            [shareRepurchases |-> PyNone, shareIssuances |-> PyNone]]]

\* what stands in raw when the call raised
NoDoc == [asOf |-> PyNone]

build_raw_from_edgar(cf) ==
    LET facts == FactsOf(cf)
        revenue == OrElse(latest(facts, "Revenues"), latest(facts, "SalesRevenueNet"))
        cogs == OrElse(latest(facts, "CostOfRevenue"),
                       latest(facts, "CostOfGoodsAndServicesSold"))
        gross_profit == latest(facts, "GrossProfit")
        operating_income == OrElse(latest(facts, "OperatingIncomeLoss"),
                                   latest(facts, "OperatingIncome"))
        net_income == latest(facts, "NetIncomeLoss")
        total_assets == latest(facts, "Assets")
        total_liabilities == latest(facts, "Liabilities")
        equity == OrElse(latest(facts, "StockholdersEquity"),
            latest(facts, "StockholdersEquityIncludingPortionAttributableToNoncontrollingInterest"))
        cash == OrElse(latest(facts, "CashAndCashEquivalentsAtCarryingValue"),
                       latest(facts, "CashAndCashEquivalentsFairValueDisclosure"))
        long_term_debt == OrElse(latest(facts, "LongTermDebtNoncurrent"),
                                 latest(facts, "LongTermDebt"))
        short_term_debt == OrElse(latest(facts, "DebtCurrent"),
                                  latest(facts, "ShortTermBorrowings"))
        current_assets == latest(facts, "AssetsCurrent")
        current_liabilities == latest(facts, "LiabilitiesCurrent")
        retained_earnings == latest(facts, "RetainedEarningsAccumulatedDeficit")
        ocf == OrElse(latest(facts, "NetCashProvidedByUsedInOperatingActivities"),
            latest(facts, "NetCashProvidedByUsedInOperatingActivitiesContinuingOperations"))
        capex == OrElse(latest(facts, "PaymentsToAcquirePropertyPlantAndEquipment"),
                        latest(facts, "CapitalExpenditures"))
        dividends == OrElse(latest(facts, "PaymentsOfDividends"),
                            latest(facts, "PaymentsOfDividendsCommonStock"))
        ten_year_profit_history == build_multi_year_series(facts, "NetIncomeLoss", 10)
        revenue_history ==
            SeriesOrElse(build_multi_year_series(facts, "Revenues", 10),
                         build_multi_year_series(facts, "SalesRevenueNet", 10))
        as_of_r == as_of(cf, facts)
        raised == {r.exc : r \in {revenue, cogs, gross_profit, operating_income,
                      net_income, total_assets, total_liabilities, equity, cash,
                      long_term_debt, short_term_debt, current_assets,
                      current_liabilities, retained_earnings, ocf, capex,
                      dividends, as_of_r}}
                  \cup {ten_year_profit_history.exc, revenue_history.exc}
    IN IF raised # {""}
       THEN [exc |-> "TypeError", raw |-> NoDoc]
       ELSE [exc |-> "",
             raw |-> RawObject(
                [as_of_v |-> as_of_r.val,
                 revenue |-> revenue.val,
                 cogs |-> cogs.val,
                 gross_profit |-> gross_profit.val,
                 operating_income |-> operating_income.val,
                 net_income |-> net_income.val,
                 total_assets |-> total_assets.val,
                 current_assets |-> current_assets.val,
                 cash |-> cash.val,
                 total_liabilities |-> total_liabilities.val,
                 current_liabilities |-> current_liabilities.val,
                 long_term_debt |-> long_term_debt.val,
                 short_term_debt |-> short_term_debt.val,
                 equity |-> equity.val,
                 ocf |-> ocf.val,
                 fcf |-> free_cash_flow(ocf.val, capex.val),
                 capex |-> capex.val,
                 dividends |-> dividends.val,
                 retained_earnings |-> retained_earnings.val,
                 working_capital_v |->
                    working_capital(current_assets.val, current_liabilities.val),
                 ten_year_profit_history |-> ten_year_profit_history.series,
                 revenue_history |-> revenue_history.series,
                 fcf_history |-> <<>>])]

----------------------------------------------------------------------------
(* build_metrics_json.py: the CSV row and its conversion *)

\* A cell is text, a sequence of characters, or None: csv.DictReader gives
\* None (its restval) to every column a short row has no field for.
StrCell(chars) == [t |-> "str", chars |-> chars]
NoneCell == [t |-> "none", chars |-> <<>>]

\* the position of column k in the header (0 when it is not there)
ColumnIndex(fieldnames, k) ==
    IF \E i \in 1..Len(fieldnames) : fieldnames[i] = k
    THEN CHOOSE i \in 1..Len(fieldnames) : fieldnames[i] = k
    ELSE 0

\* rows = list(csv.DictReader(f)): one row from the header and a line's fields
DictReaderRow(fieldnames, fields) ==
    [k \in {fieldnames[i] : i \in 1..Len(fieldnames)} |->
        IF ColumnIndex(fieldnames, k) <= Len(fields)
        THEN StrCell(fields[ColumnIndex(fieldnames, k)])
        ELSE NoneCell]

\* str.strip()
Strip(chars) ==
    LET inked == {i \in 1..Len(chars) : chars[i] # " "}
    IN IF inked = {} THEN <<>>
       ELSE SubSeq(chars,
                   CHOOSE i \in inked : \A j \in inked : i <= j,
                   CHOOSE i \in inked : \A j \in inked : j <= i)

Digits == {"0", "1"}
DigitValue(ch) == IF ch = "1" THEN 1 ELSE 0

RECURSIVE DigitsValue(_)
DigitsValue(chars) ==
    IF chars = <<>> THEN 0
    ELSE 10 * DigitsValue(SubSeq(chars, 1, Len(chars) - 1))
            + DigitValue(chars[Len(chars)])

\* float(text) for stripped, non-empty text over the characters of the
\* model: an optional sign, then digits or nan; anything else is ValueError
ParseFloat(chars) ==
    LET neg == chars[1] = "-"
        body == IF neg THEN Tail(chars) ELSE chars
    IN IF body # <<>> /\ \A i \in 1..Len(body) : body[i] \in Digits
       THEN [exc |-> "",
             val |-> PyFloat(IF neg THEN 0 - DigitsValue(body) ELSE DigitsValue(body))]
       ELSE IF body = <<"n", "a", "n">>
       THEN [exc |-> "", val |-> PyNaN]
       ELSE [exc |-> "ValueError", val |-> PyNone]

\* row.get(key, "")
RowGet(r, key) == IF key \in DOMAIN r THEN r[key] ELSE StrCell(<<>>)

to_float(r, key) ==
    LET cell == RowGet(r, key)
        val == Strip(cell.chars)
    IN IF cell.t = "none" THEN [exc |-> "AttributeError", val |-> PyNone]
       ELSE IF val = <<>> THEN [exc |-> "", val |-> PyNone]
       ELSE IF ParseFloat(val).exc = "ValueError" THEN [exc |-> "", val |-> PyNone]
       ELSE ParseFloat(val)

\* the columns build_payload converts
PayloadColumns ==
    {"sharePrice", "sharesOut", "marketCap", "enterpriseValue", "revenue",
     "cogs", "opIncome", "netIncome", "totalAssets", "currAssets", "cash",
     "currLiab", "ltDebt", "stDebt", "opCF", "fcf", "capex"}

build_payload(r) ==
    LET f == [k \in PayloadColumns |-> to_float(r, k)]
    IN IF \E k \in PayloadColumns : f[k].exc # ""
       THEN [exc |-> "AttributeError", raw |-> NoDoc]
       ELSE [exc |-> "",
             raw |->
    [asOf |-> RowGet(r, "asOf"),
     market |->
        [sharePrice |-> f["sharePrice"].val,
         sharesOutstanding |-> f["sharesOut"].val,
         marketCap |-> f["marketCap"].val,
         enterpriseValue |-> f["enterpriseValue"].val,
         historicalPrices |-> <<>>],
     statements |->
        [incomeStatement |->
            [revenue |-> f["revenue"].val, cogs |-> f["cogs"].val,
             grossProfit |-> PyNone, operatingExpenses |-> PyNone,
             depreciationAmort |-> PyNone,
             operatingIncomeEBIT |-> f["opIncome"].val, ebitda |-> PyNone,
             interestExpense |-> PyNone, pretaxIncome |-> PyNone,
             netIncome |-> f["netIncome"].val, netIncomeExNRI |-> PyNone],
         balanceSheet |->
            [totalAssets |-> f["totalAssets"].val,
             totalCurrentAssets |-> f["currAssets"].val,
             cashAndEquivalents |-> f["cash"].val,
             accountsReceivable |-> PyNone, inventory |-> PyNone,
             otherCurrentAssets |-> PyNone, totalLiabilities |-> PyNone,
             currentLiabilities |-> f["currLiab"].val,
             accountsPayable |-> PyNone, longTermDebt |-> f["ltDebt"].val,
             shortTermDebt |-> f["stDebt"].val, shareholdersEquity |-> PyNone,
             investedCapital |-> PyNone],
         cashFlow |->
            [operatingCashFlow |-> f["opCF"].val,
             freeCashFlow |-> f["fcf"].val,
             capitalExpenditures |-> f["capex"].val, ownerEarnings |-> PyNone,
             dividendsPaid |-> PyNone, cashFlowFromFinancing |-> PyNone,
             taxRate |-> PyNone]],
     optional |->
        [quality |->
            [retainedEarnings |-> PyNone, workingCapital |-> PyNone,
             tenYearProfitHistory |-> <<>>, segmentRevenue |-> <<>>],
         multiYearFinancials |->
            [revenue |-> <<>>, ebitda |-> <<>>, netIncome |-> <<>>,
             freeCashFlow |-> <<>>, bookValue |-> <<>>],
         financingDetail |->
            [shareRepurchases |-> PyNone, shareIssuances |-> PyNone]]]]

----------------------------------------------------------------------------
(* Inputs of the EDGAR functions *)

MaxLen == 3         \* observations per concept, selection and series calls
MaxLimit == 2       \* largest limit_years tried
MaxDocLen == 1      \* observations per concept, document calls

SeqsUpTo(S, n) == UNION {[1..k -> S] : k \in 0..n}

Years == {2021, 2022, 2023}

\* an annual full-year observation
Q(fy, val, end) == Obs(PyStr("10-K"), PyStr("FY"), fy, val, end)

\* observations as the data model has them: fy an integer, val a number,
\* any field possibly missing
SeriesObs ==
    {Q(PyInt(y), PyInt(7), Absent) : y \in Years}
    \cup {Q(PyInt(y), PyInt(0), Absent) : y \in Years \ {2021}}
    \cup {Q(Absent, PyInt(5), Absent),
          Q(PyInt(2023), Absent, Absent),
          Obs(PyStr("10-Q"), PyStr("FY"), PyInt(2023), PyInt(9), Absent),
          Obs(PyStr("10-K"), Absent, PyInt(2023), PyInt(9), Absent)}

\* observations with a null fiscal year, a null value or a value that is
\* text as well
ShapeObs ==
    {Q(PyInt(y), PyInt(7), Absent) : y \in {2022, 2023}}
    \cup {Q(PyNone, PyInt(5), Absent),
          Q(PyInt(2023), PyNone, Absent),
          Q(PyInt(2022), PyStr("n/a"), Absent),
          Q(Absent, PyInt(5), Absent),
          Q(PyInt(2023), Absent, Absent),
          Obs(Absent, Absent, Absent, Absent, Absent)}

\* observations of the inputs that fill the concepts of a line item: a
\* float value, a negative int, a zero
LineObs ==
    {Q(PyInt(2023), PyFloat(110), PyStr("2023-09-30")),
     Q(PyInt(2023), PyInt(-20), Absent),
     Q(PyInt(2022), PyInt(0), PyStr("2022-09-24")),
     Obs(PyStr("10-Q"), PyStr("Q2"), PyInt(2023), PyInt(40), PyStr("2023-06-30"))}

\* observations of the inputs that fill two of the asOf concepts: also an
\* empty end and no fiscal year
DateObs ==
    LineObs \cup {Q(PyInt(2022), PyInt(500), PyStr("")),
                  Q(Absent, PyInt(300), Absent)}

ConceptRec(entries) == [hasUnits |-> TRUE, hasUSD |-> TRUE, USD |-> entries]

\* facts with the given concepts; m maps each concept to its observations
FactsWith(m) ==
    [hasUsGaap |-> TRUE, usgaap |-> [c \in DOMAIN m |-> ConceptRec(m[c])]]

\* the ways a key of facts["us-gaap"][concept]["units"]["USD"] can be missing
GappedFacts ==
    {EmptyFacts,
     [hasUsGaap |-> TRUE, usgaap |-> [c \in {} |-> 0]],
     [hasUsGaap |-> TRUE,
      usgaap |-> [c \in {"NetIncomeLoss"} |->
                    [hasUnits |-> FALSE, hasUSD |-> FALSE, USD |-> <<>>]]],
     [hasUsGaap |-> TRUE,
      usgaap |-> [c \in {"NetIncomeLoss"} |->
                    [hasUnits |-> TRUE, hasUSD |-> FALSE, USD |-> <<>>]]]}

\* fact tables holding one concept with up to n observations out of obs,
\* and the gapped ones
FactsOver(obs, n) ==
    {FactsWith([c \in {"NetIncomeLoss"} |-> l]) : l \in SeqsUpTo(obs, n)}
    \cup GappedFacts

\* the calls made: every table with the concept it may hold, the tables of
\* at most one observation also with a concept no table holds
CallsOver(obs, n) ==
    {<<f, "NetIncomeLoss">> : f \in FactsOver(obs, n)}
    \cup {<<f, "GrossProfit">> : f \in FactsOver(obs, 1)}

\* the source concepts of each line item that has a list of them
Chains ==
    {<<"Revenues", "SalesRevenueNet">>,
     <<"CostOfRevenue", "CostOfGoodsAndServicesSold">>,
     <<"OperatingIncomeLoss", "OperatingIncome">>,
     <<"StockholdersEquity",
       "StockholdersEquityIncludingPortionAttributableToNoncontrollingInterest">>,
     <<"CashAndCashEquivalentsAtCarryingValue",
       "CashAndCashEquivalentsFairValueDisclosure">>,
     <<"LongTermDebtNoncurrent", "LongTermDebt">>,
     <<"DebtCurrent", "ShortTermBorrowings">>,
     <<"NetCashProvidedByUsedInOperatingActivities",
       "NetCashProvidedByUsedInOperatingActivitiesContinuingOperations">>,
     <<"PaymentsToAcquirePropertyPlantAndEquipment", "CapitalExpenditures">>,
     <<"PaymentsOfDividends", "PaymentsOfDividendsCommonStock">>}

\* the concepts that are filled together in one input
ConceptGroups ==
    {{ch[1], ch[2]} : ch \in Chains}
    \cup {{"AssetsCurrent", "LiabilitiesCurrent"},
          {"NetCashProvidedByUsedInOperatingActivities",
           "PaymentsToAcquirePropertyPlantAndEquipment"},
          {"NetCashProvidedByUsedInOperatingActivitiesContinuingOperations",
           "CapitalExpenditures"},
          {"GrossProfit", "Liabilities"},
          {"RetainedEarningsAccumulatedDeficit", "NetIncomeLoss"}}

DateGroups ==
    {{"Assets", "Revenues"}, {"Assets", "NetIncomeLoss"},
     {"Revenues", "NetIncomeLoss"}}

\* the observations of the inputs that fill all three asOf concepts
AsOfObs ==
    {Q(PyInt(2023), PyInt(110), PyStr("2023-09-30")),
     Q(PyInt(2022), PyInt(-20), Absent),
     Obs(PyStr("10-Q"), PyStr("Q2"), PyInt(2023), PyInt(40), PyStr("2023-06-30"))}

CompanyFacts(entityName, hasFacts, facts) ==
    [entityName |-> entityName, hasFacts |-> hasFacts, facts |-> facts]

DocInputs(n) ==
    {CompanyFacts(PyStr("Apple Inc."), TRUE, FactsWith(m)) :
        m \in UNION {[g -> SeqsUpTo(LineObs, n)] : g \in ConceptGroups}}
    \cup {CompanyFacts(PyStr("Apple Inc."), TRUE, FactsWith(m)) :
            m \in UNION {[g -> SeqsUpTo(DateObs, n)] : g \in DateGroups}}
    \cup {CompanyFacts(PyStr("Apple Inc."), TRUE, FactsWith(m)) :
            m \in [{"Assets", "Revenues", "NetIncomeLoss"} -> SeqsUpTo(AsOfObs, n)]}
    \cup {CompanyFacts(Absent, TRUE, FactsWith(m)) :
            m \in [{"Revenues"} -> SeqsUpTo(DateObs, n)]}
    \cup {CompanyFacts(name, FALSE, EmptyFacts) :
            name \in {Absent, PyStr("Apple Inc.")}}
    \cup {CompanyFacts(PyStr("Apple Inc."), TRUE, f) : f \in GappedFacts}

ShapeDocInputs(n) ==
    {CompanyFacts(PyStr("Apple Inc."), TRUE, f) : f \in FactsOver(ShapeObs, n)}

----------------------------------------------------------------------------
(* One action per function: the call and what it returned *)

NotCalled == [op |-> "init"]

PickLatestAnnualEntry(calls) ==
    /\ call = NotCalled
    /\ \E c \in calls :
          /\ call' = [op |-> "pick_latest_annual_entry", facts |-> c[1],
                      concept |-> c[2]]
          /\ ret' = pick_latest_annual_entry(c[1], c[2])
    /\ UNCHANGED <<pc, idx, tickers, cik_map, facts_in, raw_out, trail, data_dir>>

PickLatestAnnualUsd(calls) ==
    /\ call = NotCalled
    /\ \E c \in calls :
          /\ call' = [op |-> "pick_latest_annual_usd", facts |-> c[1],
                      concept |-> c[2]]
          /\ ret' = pick_latest_annual_usd(c[1], c[2])
    /\ UNCHANGED <<pc, idx, tickers, cik_map, facts_in, raw_out, trail, data_dir>>

BuildMultiYearSeries(calls) ==
    /\ call = NotCalled
    /\ \E c \in calls, limit_years \in 0..MaxLimit :
          /\ call' = [op |-> "build_multi_year_series", facts |-> c[1],
                      concept |-> c[2], limit_years |-> limit_years]
          /\ ret' = build_multi_year_series(c[1], c[2], limit_years)
    /\ UNCHANGED <<pc, idx, tickers, cik_map, facts_in, raw_out, trail, data_dir>>

BuildRawFromEdgar(D) ==
    /\ call = NotCalled
    /\ \E cf \in D :
          /\ call' = [op |-> "build_raw_from_edgar", company_facts |-> cf]
          /\ ret' = build_raw_from_edgar(cf)
    /\ UNCHANGED <<pc, idx, tickers, cik_map, facts_in, raw_out, trail, data_dir>>

\* the tickers that name a file data/<TICKER>.json
TickerNames == {"AAPL", "MSFT"}

\* the data directory with no file in it
NoFiles == [t \in TickerNames |-> "none"]

\* What a file holds after a program that opened it with mode "w" (which
\* left it empty) writes its document from offset 0 and closes it: the
\* document, unless the other program wrote into the file in between; then
\* the longer of the two decides whether a tail of the other one stays
\* behind the document ("mixed", no valid JSON).
WriteOver(content, doc) ==
    IF content = "empty" THEN {doc} ELSE {doc, "mixed"}

\* the same when the dump fails on the way: the file holds the bytes
\* written before the failure.  None (the file stays as it is: empty, or
\* what the other program wrote), a part of the document alone, or a part
\* in front of what remains of the other program's text.
PartOver(content, part) ==
    {content, part} \cup (IF content = "empty" THEN {} ELSE {"mixed"})

InitCalls ==
    /\ call = NotCalled
    /\ ret = NotCalled
    /\ pc = "idle"
    /\ idx = 0
    /\ tickers = <<>>
    /\ cik_map = <<>>
    /\ facts_in = NotCalled
    /\ raw_out = NotCalled
    /\ trail = <<>>
    /\ data_dir = NoFiles


----------------------------------------------------------------------------
(* Inputs of the CSV functions *)

MaxCell == 3        \* characters per cell

Chars == {" ", "-", "0", "1", "n", "a"}

\* a few cells: a number, nan, blanks, text that is no number
FewCells == {<<"1">>, <<"n", "a", "n">>, <<" ">>, <<"a">>}

\* the header of data/fundamentals.csv
Header ==
    <<"ticker", "asOf", "sharePrice", "sharesOut", "marketCap",
      "enterpriseValue", "revenue", "cogs", "opIncome", "netIncome",
      "totalAssets", "currAssets", "cash", "currLiab", "ltDebt", "stDebt",
      "opCF", "fcf", "capex">>

TickerCell == <<"A", "A", "P", "L">>

\* a line with every cell empty but the ticker and column k, which holds c
LineWith(k, c) ==
    [i \in 1..Len(Header) |->
        IF Header[i] = k THEN c
        ELSE IF i = 1 THEN TickerCell ELSE <<>>]

CsvRows(maxCell) ==
    \* a full line, one cell filled: any text in two of the columns, a few
    \* texts in the others
    {DictReaderRow(Header, LineWith(k, c)) :
        k \in {"revenue", "capex"}, c \in SeqsUpTo(Chars, maxCell)}
    \cup {DictReaderRow(Header, LineWith(k, c)) :
            k \in PayloadColumns \cup {"asOf"}, c \in FewCells}
    \* a line with fewer fields than the header has columns
    \cup {DictReaderRow(Header, SubSeq(LineWith("revenue", <<"1", "0", "0">>), 1, n)) :
            n \in 1..(Len(Header) - 1)}
    \* a file whose header lacks column k
    \cup {DictReaderRow(SelectSeq(Header, LAMBDA h : h # k),
                        [i \in 1..(Len(Header) - 1) |->
                            IF i = 1 THEN TickerCell ELSE <<>>]) :
            k \in PayloadColumns \cup {"asOf"}}

\* the keys to_float is called with for a row: those whose cell is not
\* empty text, and one more
ArgKeys(r) ==
    {k \in PayloadColumns : k \notin DOMAIN r \/ r[k] # StrCell(<<>>)}
    \cup {"sharePrice"}

ToFloat ==
    /\ call = NotCalled
    /\ \E r \in CsvRows(MaxCell) :
          \E key \in ArgKeys(r) :
             /\ call' = [op |-> "to_float", row |-> r, key |-> key]
             /\ ret' = to_float(r, key)
    /\ UNCHANGED <<pc, idx, tickers, cik_map, facts_in, raw_out, trail, data_dir>>

BuildPayload ==
    /\ call = NotCalled
    /\ \E r \in CsvRows(MaxCell) :
          /\ call' = [op |-> "build_payload", row |-> r]
          /\ ret' = build_payload(r)
    /\ UNCHANGED <<pc, idx, tickers, cik_map, facts_in, raw_out, trail, data_dir>>

LowerCase ==
    <<"a", "b", "c", "d", "e", "f", "g", "h", "i", "j", "k", "l", "m",
      "n", "o", "p", "q", "r", "s", "t", "u", "v", "w", "x", "y", "z">>
UpperCase ==
    <<"A", "B", "C", "D", "E", "F", "G", "H", "I", "J", "K", "L", "M",
      "N", "O", "P", "Q", "R", "S", "T", "U", "V", "W", "X", "Y", "Z">>

\* str.upper(): every lower-case letter to its capital, the rest as it is
Upper(chars) ==
    [i \in 1..Len(chars) |->
        IF \E k \in 1..Len(LowerCase) : LowerCase[k] = chars[i]
        THEN UpperCase[CHOOSE k \in 1..Len(LowerCase) : LowerCase[k] = chars[i]]
        ELSE chars[i]]

\* the <ticker> of data/<ticker>.json, for the tickers that have a row in
\* the files of the model
TickerText(chars) ==
    IF chars = <<"A", "A", "P", "L">> THEN "AAPL"
    ELSE IF chars = <<"M", "S", "F", "T">> THEN "MSFT"
    ELSE "other"

\* the loop over rows from row i on: the first row of the ticker (0 when
\* there is none)
RECURSIVE FindRow(_, _, _)
FindRow(rows, i, ticker) ==
    IF i > Len(rows) THEN [exc |-> "", row |-> 0]
    ELSE LET cell == RowGet(rows[i], "ticker")
         IN IF cell.t = "none" THEN [exc |-> "AttributeError", row |-> 0]
            ELSE IF Upper(cell.chars) = ticker THEN [exc |-> "", row |-> i]
            ELSE FindRow(rows, i + 1, ticker)

\* sys.exit(1)
Exit1 ==
    [exc |-> "SystemExit", code |-> 1, ticker |-> <<>>, payload |-> NoDoc,
     at |-> "left"]

\* main of build_metrics_json.py up to the payload it is about to write
\* (at: "open" before the open of the output file, "left" when main is
\* over); argv holds the arguments after the program name
build_metrics_json_main(argv, csv) ==
    IF Len(argv) < 1 THEN Exit1
    ELSE IF ~csv.exists THEN Exit1
    ELSE LET ticker == Upper(argv[1])
             found == FindRow(csv.rows, 1, ticker)
             payload == build_payload(csv.rows[found.row])
         IN IF found.exc # ""
            THEN [exc |-> found.exc, code |-> 1, ticker |-> ticker,
                  payload |-> NoDoc, at |-> "left"]
            ELSE IF found.row = 0 THEN Exit1
            ELSE IF payload.exc # ""
            THEN [exc |-> payload.exc, code |-> 1, ticker |-> ticker,
                  payload |-> NoDoc, at |-> "left"]
            ELSE [exc |-> "", code |-> 0, ticker |-> ticker,
                  payload |-> payload.raw, at |-> "open"]

MaxRows == 2        \* rows of data/fundamentals.csv

\* rows of one file: a full line, a line shorter than the header, a line of
\* another ticker in lower case
MainRows ==
    {DictReaderRow(Header, LineWith("revenue", <<"1", "0", "0">>)),
     DictReaderRow(Header, SubSeq(LineWith("revenue", <<"1", "0", "0">>), 1, 7)),
     DictReaderRow(Header, [LineWith("revenue", <<"1">>)
                                EXCEPT ![1] = <<"m", "s", "f", "t">>])}

\* data/fundamentals.csv: missing, or holding up to n rows
CsvFiles(n) ==
    {[exists |-> FALSE, rows |-> <<>>]}
    \cup {[exists |-> TRUE, rows |-> l] : l \in SeqsUpTo(MainRows, n)}

\* the command lines: no argument, a ticker in either case, an unknown one
CommandLines ==
    {<<>>, << <<"a", "a", "p", "l">> >>, << <<"M", "S", "F", "T">> >>,
     << <<"z">> >>}

\* main of build_metrics_json.py from its start to the payload: it leaves
\* by sys.exit(1) or an exception, or stands before the open of
\* data/<TICKER>.json
BuildMetricsJsonMain(argvs, csvs) ==
    /\ call = NotCalled
    /\ \E argv \in argvs, csv \in csvs :
          /\ call' = [op |-> "main", argv |-> argv, csv |-> csv]
          /\ ret' = build_metrics_json_main(argv, csv)
    /\ UNCHANGED <<pc, idx, tickers, cik_map, facts_in, raw_out, trail, data_dir>>

\* out_path.open("w"): the file is created or emptied, or the open fails
\* and the exception leaves main
MetricsOpen ==
    /\ call.op = "main"
    /\ ret.at = "open"
    /\ \/ /\ data_dir' = [data_dir EXCEPT ![TickerText(ret.ticker)] = "empty"]
          /\ ret' = [ret EXCEPT !.at = "dump"]
       \/ /\ ret' = [ret EXCEPT !.exc = "OSError", !.code = 1, !.at = "left"]
          /\ UNCHANGED data_dir
    /\ UNCHANGED <<call, pc, idx, tickers, cik_map, facts_in, raw_out, trail>>

\* json.dump(payload, f) and the close of the file, which writes the text
\* from offset 0; the dump may fail on the way
MetricsDump ==
    /\ call.op = "main"
    /\ ret.at = "dump"
    /\ LET t == TickerText(ret.ticker)
       IN \/ /\ \E c \in WriteOver(data_dir[t], "csv") :
                   data_dir' = [data_dir EXCEPT ![t] = c]
             /\ ret' = [ret EXCEPT !.at = "left"]
          \/ /\ \E c \in PartOver(data_dir[t], "csv_partial") :
                   data_dir' = [data_dir EXCEPT ![t] = c]
             /\ ret' = [ret EXCEPT !.exc = "OSError", !.code = 1, !.at = "left"]
    /\ UNCHANGED <<call, pc, idx, tickers, cik_map, facts_in, raw_out, trail>>

Next ==
    \/ PickLatestAnnualEntry(CallsOver(SeriesObs, MaxLen))
    \/ PickLatestAnnualUsd(CallsOver(SeriesObs, MaxLen))
    \/ BuildMultiYearSeries(CallsOver(SeriesObs, MaxLen))
    \/ BuildRawFromEdgar(DocInputs(MaxDocLen))
    \/ ToFloat
    \/ BuildPayload
    \/ BuildMetricsJsonMain(CommandLines, CsvFiles(MaxRows))
    \/ MetricsOpen
    \/ MetricsDump

\* every function applied once to an input of the data model
Spec == InitCalls /\ [][Next]_vars

NextShape ==
    \/ PickLatestAnnualEntry(CallsOver(ShapeObs, MaxLen))
    \/ PickLatestAnnualUsd(CallsOver(ShapeObs, MaxLen))
    \/ BuildMultiYearSeries(CallsOver(ShapeObs, MaxLen))
    \/ BuildRawFromEdgar(ShapeDocInputs(MaxLen))

\* the same functions on fact tables of any shape
SpecShape == InitCalls /\ [][NextShape]_vars

----------------------------------------------------------------------------
(* Claims about the selection rules *)

\* C1: pick_latest_annual_entry returns, among the qualifying USD
\* observations, the one of maximal fiscal year, the first in input order
\* when several share it, whatever the order of the list; None when none
\* qualifies; pick_latest_annual_usd returns that observation's val.  An
\* observation qualifies by the filter of the function (form 10-K, fp FY,
\* a val; in these inputs a val that is present is a number), and one that
\* reports no fiscal year counts as year 0.
C1_LatestAnnualIsMaxFyFirstInInput ==
    call.op \in {"pick_latest_annual_entry", "pick_latest_annual_usd"} =>
        LET l == Entries(call.facts, call.concept).entries
            qual == {i \in 1..Len(l) : IsAnnual(l[i])}
            year(i) == FyKey(l[i]).n
            best == {i \in qual :
                        /\ \A j \in qual : year(j) <= year(i)
                        /\ \A j \in qual : j < i => year(j) < year(i)}
        IN /\ ret.exc = ""
           /\ Cardinality(best) <= 1
           /\ IF call.op = "pick_latest_annual_entry"
              THEN IF best = {} THEN ret.none
                   ELSE ~ret.none /\ \A i \in best : ret.entry = l[i]
              ELSE IF best = {} THEN ret.val = PyNone
                   ELSE \A i \in best : ret.val = l[i].val

\* a tie at the maximal year behind an older year: the first of the tied
\* observations comes back
C1_Witness ==
    /\ call.op = "pick_latest_annual_entry"
    /\ LET l == Entries(call.facts, call.concept).entries
       IN /\ Len(l) = 3
          /\ \A i \in 1..3 : IsAnnual(l[i])
          /\ l[1].fy = PyInt(2022)
          /\ l[2].fy = PyInt(2023)
          /\ l[3].fy = PyInt(2023)
          /\ l[2].val # l[3].val
          /\ ~ret.none
          /\ ret.entry = l[2]

\* C3: for limit_years >= 1 the series is strictly ascending in fy, holds
\* one entry per fiscal year, its years are the min(limit_years, number of
\* distinct qualifying years) most recent qualifying years, and each value
\* is the val of the first qualifying observation of that year in input
\* order.
C3_SeriesIsMostRecentDistinctYearsAscending ==
    (call.op = "build_multi_year_series" /\ call.limit_years >= 1) =>
        LET l == Entries(call.facts, call.concept).entries
            Y == {l[i].fy.n : i \in {j \in 1..Len(l) : IsAnnualWithFy(l[j])}}
            most == IF call.limit_years < Cardinality(Y)
                    THEN call.limit_years ELSE Cardinality(Y)
            s == ret.series
            got == {s[i].fy.n : i \in 1..Len(s)}
        IN /\ ret.exc = ""
           /\ \A i, j \in 1..Len(s) : i < j => s[i].fy.n < s[j].fy.n
           /\ Len(s) = most
           /\ got \subseteq Y
           /\ \A y \in Y \ got : \A g \in got : y < g
           /\ \A i \in 1..Len(s) :
                 \E p \in 1..Len(l) :
                    /\ IsAnnualWithFy(l[p])
                    /\ l[p].fy = s[i].fy
                    /\ \A q \in 1..(p - 1) :
                          ~(IsAnnualWithFy(l[q]) /\ l[q].fy = l[p].fy)
                    /\ s[i].value = l[p].val

\* three distinct years out of order, limit 2: the two most recent, ascending
C3_Witness ==
    /\ call.op = "build_multi_year_series"
    /\ call.limit_years = 2
    /\ LET l == Entries(call.facts, call.concept).entries
       IN /\ Len(l) = 3
          /\ l[1].fy = PyInt(2022) /\ l[2].fy = PyInt(2023) /\ l[3].fy = PyInt(2021)
          /\ \A i \in 1..3 : IsAnnualWithFy(l[i])
    /\ Len(ret.series) = 2
    /\ ret.series[1].fy = PyInt(2022)
    /\ ret.series[2].fy = PyInt(2023)

\* C4: for every non-negative limit_years the series is no longer than
\* limit_years.
C4_SeriesNoLongerThanLimit ==
    call.op = "build_multi_year_series" => Len(ret.series) <= call.limit_years

\* C5: none of the three functions raises, whatever the shape of the fact
\* table; an observation with a missing or malformed field only fails to
\* qualify.
C5_NeverRaisesOnAnyShape ==
    call.op \in {"pick_latest_annual_entry", "pick_latest_annual_usd",
                 "build_multi_year_series", "build_raw_from_edgar"}
        => ret.exc = ""

----------------------------------------------------------------------------
(* Claims about the document *)

\* the line items that have a list of source concepts, with their lists
ChainItems ==
    [revenue |-> <<"Revenues", "SalesRevenueNet">>,
     cogs |-> <<"CostOfRevenue", "CostOfGoodsAndServicesSold">>,
     operatingIncomeEBIT |-> <<"OperatingIncomeLoss", "OperatingIncome">>,
     shareholdersEquity |-> <<"StockholdersEquity",
        "StockholdersEquityIncludingPortionAttributableToNoncontrollingInterest">>,
     cashAndEquivalents |-> <<"CashAndCashEquivalentsAtCarryingValue",
        "CashAndCashEquivalentsFairValueDisclosure">>,
     longTermDebt |-> <<"LongTermDebtNoncurrent", "LongTermDebt">>,
     shortTermDebt |-> <<"DebtCurrent", "ShortTermBorrowings">>,
     operatingCashFlow |-> <<"NetCashProvidedByUsedInOperatingActivities",
        "NetCashProvidedByUsedInOperatingActivitiesContinuingOperations">>,
     capitalExpenditures |-> <<"PaymentsToAcquirePropertyPlantAndEquipment",
        "CapitalExpenditures">>,
     dividendsPaid |-> <<"PaymentsOfDividends", "PaymentsOfDividendsCommonStock">>]

\* a line item of the document by name
LineItem(raw, name) ==
    IF name \in DOMAIN raw.statements.incomeStatement
    THEN raw.statements.incomeStatement[name]
    ELSE IF name \in DOMAIN raw.statements.balanceSheet
    THEN raw.statements.balanceSheet[name]
    ELSE raw.statements.cashFlow[name]

\* C2: a line item with a list of source concepts is the latest-annual value
\* of the first concept whose latest-annual value is not null, 0 included,
\* and null only when every concept of the list yields null.
C2_LineItemIsFirstNonNullConcept ==
    (call.op = "build_raw_from_edgar" /\ ret.exc = "") =>
        \A name \in DOMAIN ChainItems :
            LET f == FactsOf(call.company_facts)
                a == latest(f, ChainItems[name][1]).val
                b == latest(f, ChainItems[name][2]).val
            IN LineItem(ret.raw, name) = IF a # PyNone THEN a ELSE b

\* C6: workingCapital is null exactly when totalCurrentAssets or
\* currentLiabilities is null and is their difference otherwise;
\* freeCashFlow is null exactly when operatingCashFlow or
\* capitalExpenditures is null and is their sum otherwise.
C6_DerivedFields ==
    (call.op = "build_raw_from_edgar" /\ ret.exc = "") =>
        LET bs == ret.raw.statements.balanceSheet
            cfl == ret.raw.statements.cashFlow
            wc == ret.raw.optional.quality.workingCapital
        IN /\ (wc = PyNone) <=>
                (bs.totalCurrentAssets = PyNone \/ bs.currentLiabilities = PyNone)
           /\ wc # PyNone =>
                /\ wc.t \in {"int", "float"}
                /\ wc.n = bs.totalCurrentAssets.n - bs.currentLiabilities.n
           /\ (cfl.freeCashFlow = PyNone) <=>
                (cfl.operatingCashFlow = PyNone \/ cfl.capitalExpenditures = PyNone)
           /\ cfl.freeCashFlow # PyNone =>
                /\ cfl.freeCashFlow.t \in {"int", "float"}
                /\ cfl.freeCashFlow.n =
                        cfl.operatingCashFlow.n + cfl.capitalExpenditures.n

\* 110.0 and -20 give 90.0
C6_Witness ==
    /\ call.op = "build_raw_from_edgar"
    /\ ret.exc = ""
    /\ ret.raw.statements.cashFlow.operatingCashFlow = PyFloat(110)
    /\ ret.raw.statements.cashFlow.capitalExpenditures = PyInt(-20)
    /\ ret.raw.statements.cashFlow.freeCashFlow = PyFloat(90)

\* an end date is present: the key is there and holds a date
HasEndDate(e) == e.end.t = "str" /\ e.end.s # ""

\* the first of Assets, Revenues, NetIncomeLoss with a latest-annual entry
\* ("" when none has one)
AsOfConcept(f) ==
    IF ~pick_latest_annual_entry(f, "Assets").none THEN "Assets"
    ELSE IF ~pick_latest_annual_entry(f, "Revenues").none THEN "Revenues"
    ELSE IF ~pick_latest_annual_entry(f, "NetIncomeLoss").none THEN "NetIncomeLoss"
    ELSE ""

\* C7: asOf comes from the first of Assets, Revenues, NetIncomeLoss that has
\* a latest-annual entry: the entry's end when an end date is present,
\* otherwise its fiscal year as a string (str of the fy field, the text None
\* for an entry that carries no fiscal year); with no such entry asOf is
\* entityName, or "" when entityName is absent.
C7_AsOfRule ==
    (call.op = "build_raw_from_edgar" /\ ret.exc = "") =>
        LET cf == call.company_facts
            f == FactsOf(cf)
            c == AsOfConcept(f)
            e == pick_latest_annual_entry(f, c).entry
        IN IF c = ""
           THEN ret.raw.asOf =
                    IF cf.entityName = Absent THEN PyStr("") ELSE cf.entityName
           ELSE /\ HasEndDate(e) => ret.raw.asOf = e.end
                /\ (~HasEndDate(e) /\ e.fy.t = "int") =>
                        ret.raw.asOf = PyStr(ToString(e.fy.n))
                /\ (~HasEndDate(e) /\ e.fy.t # "int") =>
                        ret.raw.asOf = PyStr("None")

\* Assets has no annual entry, Revenues has one without an end date: asOf is
\* the fiscal year of the Revenues entry
C7_Witness ==
    /\ call.op = "build_raw_from_edgar"
    /\ ret.exc = ""
    /\ LET f == FactsOf(call.company_facts)
       IN /\ "Assets" \in DOMAIN f.usgaap
          /\ pick_latest_annual_entry(f, "Assets").none
          /\ ~pick_latest_annual_entry(f, "Revenues").none
          /\ ~HasEndDate(pick_latest_annual_entry(f, "Revenues").entry)
    /\ ret.raw.asOf = PyStr("2023")

\* the key set of the document at every level
TopKeys == {"asOf", "market", "statements", "optional"}
MarketKeys ==
    {"sharePrice", "sharesOutstanding", "marketCap", "enterpriseValue",
     "historicalPrices"}
StatementKeys == {"incomeStatement", "balanceSheet", "cashFlow"}
IncomeKeys ==
    {"revenue", "cogs", "grossProfit", "operatingExpenses", "depreciationAmort",
     "operatingIncomeEBIT", "ebitda", "interestExpense", "pretaxIncome",
     "netIncome", "netIncomeExNRI"}
BalanceKeys ==
    {"totalAssets", "totalCurrentAssets", "cashAndEquivalents",
     "accountsReceivable", "inventory", "otherCurrentAssets",
     "totalLiabilities", "currentLiabilities", "accountsPayable",
     "longTermDebt", "shortTermDebt", "shareholdersEquity", "investedCapital"}
CashFlowKeys ==
    {"operatingCashFlow", "freeCashFlow", "capitalExpenditures",
     "ownerEarnings", "dividendsPaid", "cashFlowFromFinancing", "taxRate"}
OptionalKeys == {"quality", "multiYearFinancials", "financingDetail"}
QualityKeys ==
    {"retainedEarnings", "workingCapital", "tenYearProfitHistory",
     "segmentRevenue"}
MultiYearKeys == {"revenue", "ebitda", "netIncome", "freeCashFlow", "bookValue"}
FinancingKeys == {"shareRepurchases", "shareIssuances"}

HasFixedKeys(doc) ==
    /\ DOMAIN doc = TopKeys
    /\ DOMAIN doc.market = MarketKeys
    /\ DOMAIN doc.statements = StatementKeys
    /\ DOMAIN doc.statements.incomeStatement = IncomeKeys
    /\ DOMAIN doc.statements.balanceSheet = BalanceKeys
    /\ DOMAIN doc.statements.cashFlow = CashFlowKeys
    /\ DOMAIN doc.optional = OptionalKeys
    /\ DOMAIN doc.optional.quality = QualityKeys
    /\ DOMAIN doc.optional.multiYearFinancials = MultiYearKeys
    /\ DOMAIN doc.optional.financingDetail = FinancingKeys

\* a finite number (an int, or a float that is not NaN) or null; "absent"
\* would be an omitted leaf
IsNumberOrNull(v) ==
    \/ v.t = "none"
    \/ v.t = "int"
    \/ v.t = "float" /\ v # PyNaN

NumericLeaves(doc) ==
    {doc.market[k] : k \in MarketKeys \ {"historicalPrices"}}
    \cup {doc.statements.incomeStatement[k] : k \in IncomeKeys}
    \cup {doc.statements.balanceSheet[k] : k \in BalanceKeys}
    \cup {doc.statements.cashFlow[k] : k \in CashFlowKeys}
    \cup {doc.optional.quality[k] : k \in {"retainedEarnings", "workingCapital"}}
    \cup {doc.optional.financingDetail[k] : k \in FinancingKeys}

\* C8: every document build_raw_from_edgar or build_payload produces has
\* the same key set at every level, and every numeric line-item leaf is
\* there and is a number or null, never NaN and never a value of another
\* kind.
C8_FixedKeysNumericLeaves ==
    (call.op \in {"build_raw_from_edgar", "build_payload"} /\ ret.exc = "") =>
        /\ HasFixedKeys(ret.raw)
        /\ \A v \in NumericLeaves(ret.raw) : IsNumberOrNull(v)

\* C10: to_float never raises; it returns null for an empty cell, for a
\* column the row does not have and for text that is no number, and the
\* parsed number otherwise.
C10_ToFloatNeverRaises ==
    call.op = "to_float" =>
        /\ ret.exc = ""
        /\ (\/ call.key \notin DOMAIN call.row
            \/ call.row[call.key].t = "none"
            \/ Strip(call.row[call.key].chars) = <<>>) => ret.val = PyNone
        /\ ret.val.t \in {"none", "float"}

----------------------------------------------------------------------------
(* The batch builder's main *)

MaxTickers == 2     \* length of the configured ticker list

\* CIK_MAP as configured, and with a second ticker mapped or mapped to ""
CikMaps ==
    {[t \in {"AAPL"} |-> "0000320193"],
     [t \in TickerNames |-> IF t = "AAPL" THEN "0000320193" ELSE "0000789019"],
     [t \in TickerNames |-> IF t = "AAPL" THEN "0000320193" ELSE ""]}

\* CIK_MAP.get(ticker)
CikOf(map, ticker) == IF ticker \in DOMAIN map THEN PyStr(map[ticker]) ELSE PyNone

\* what a fetch can return: a table that builds and one that does not
FetchedFacts ==
    {CompanyFacts(PyStr("Apple Inc."), TRUE,
        FactsWith([c \in {"Assets"} |->
            <<Q(PyInt(2023), PyInt(110), PyStr("2023-09-30"))>>])),
     CompanyFacts(PyStr("Apple Inc."), TRUE,
        FactsWith([c \in {"Assets"} |->
            <<Q(PyNone, PyInt(110), Absent), Q(PyInt(2023), PyInt(7), Absent)>>]))}

\* fetch_company_facts(cik): the GET fails (network), raise_for_status
\* raises, resp.json() raises on a body that is no JSON, or the parsed body
\* comes back
fetch_company_facts ==
    {[exc |-> "", facts |-> f] : f \in FetchedFacts}
    \cup {[exc |-> e, facts |-> NotCalled] :
            e \in {"ConnectionError", "HTTPError", "JSONDecodeError"}}

\* the except clauses of main: requests.HTTPError, then Exception
ExceptionClasses ==
    {"HTTPError", "ConnectionError", "JSONDecodeError", "TypeError",
     "AttributeError", "OSError"}
CaughtHttpErrorOnly(exc) == exc = "HTTPError"
Caught(exc) == exc = "HTTPError" \/ exc \in ExceptionClasses

\* the record of one ticker of the list
TrailEntry(ticker) ==
    [ticker |-> ticker, warned |-> FALSE, fetch_tried |-> FALSE,
     fetched |-> FALSE, built |-> FALSE, file |-> "none", error |-> ""]

Mark(field, value) == [trail EXCEPT ![idx][field] = value]

\* an exception inside the try block: to a handler, which prints and falls
\* through to the pause, or out of main
Raise(exc, marked) ==
    IF Caught(exc)
    THEN /\ trail' = [marked EXCEPT ![idx].error = exc]
         /\ pc' = "sleep"
    ELSE /\ trail' = [marked EXCEPT ![idx].error = exc]
         /\ pc' = "crashed"

InitBatch ==
    /\ call = NotCalled
    /\ ret = NotCalled
    /\ pc = "makedirs"
    /\ idx = 1
    /\ tickers \in SeqsUpTo(TickerNames, MaxTickers)
    /\ cik_map \in CikMaps
    /\ facts_in = NotCalled
    /\ raw_out = NotCalled
    /\ trail = <<>>
    /\ data_dir \in {NoFiles, [NoFiles EXCEPT !["AAPL"] = "old"]}

\* os.makedirs(DATA_DIR, exist_ok=True), outside the try block: when it
\* raises (a file at that path, no permission) the exception leaves main
MakeDirs ==
    /\ pc = "makedirs"
    /\ pc' \in {"loop", "aborted"}
    /\ UNCHANGED <<call, ret, idx, tickers, cik_map, facts_in, raw_out, trail,
                   data_dir>>

\* if not cik: warn and continue
SkipTicker ==
    /\ pc = "loop"
    /\ idx <= Len(tickers)
    /\ ~Truthy(CikOf(cik_map, tickers[idx]))
    /\ trail' = Append(trail, [TrailEntry(tickers[idx]) EXCEPT !.warned = TRUE])
    /\ idx' = idx + 1
    /\ UNCHANGED <<call, ret, pc, tickers, cik_map, facts_in, raw_out, data_dir>>

BeginTicker ==
    /\ pc = "loop"
    /\ idx <= Len(tickers)
    /\ Truthy(CikOf(cik_map, tickers[idx]))
    /\ trail' = Append(trail, TrailEntry(tickers[idx]))
    /\ pc' = "fetch"
    /\ UNCHANGED <<call, ret, idx, tickers, cik_map, facts_in, raw_out, data_dir>>

FetchCompanyFacts ==
    /\ pc = "fetch"
    /\ \E got \in fetch_company_facts :
          IF got.exc = ""
          THEN /\ facts_in' = got.facts
               /\ trail' = [trail EXCEPT ![idx].fetch_tried = TRUE,
                                         ![idx].fetched = TRUE]
               /\ pc' = "build"
          ELSE /\ Raise(got.exc, Mark("fetch_tried", TRUE))
               /\ UNCHANGED facts_in
    /\ UNCHANGED <<call, ret, idx, tickers, cik_map, raw_out, data_dir>>

\* raw = build_raw_from_edgar(facts), for each table a fetch can return
BuiltFrom == [f \in FetchedFacts |-> build_raw_from_edgar(f)]

BuildRaw ==
    /\ pc = "build"
    /\ LET r == BuiltFrom[facts_in]
       IN IF r.exc = ""
          THEN /\ raw_out' = r.raw
               /\ trail' = Mark("built", TRUE)
               /\ pc' = "write"
          ELSE /\ Raise(r.exc, trail)
               /\ UNCHANGED raw_out
    /\ UNCHANGED <<call, ret, idx, tickers, cik_map, facts_in, data_dir>>

\* open(out_path, "w"): the file is created or emptied, or the open fails
OpenOutPath ==
    /\ pc = "write"
    /\ \/ /\ trail' = Mark("file", "opened")
          /\ data_dir' = [data_dir EXCEPT ![tickers[idx]] = "empty"]
          /\ pc' = "dump"
       \/ /\ Raise("OSError", trail)
          /\ UNCHANGED data_dir
    /\ UNCHANGED <<call, ret, idx, tickers, cik_map, facts_in, raw_out>>

\* json.dump(raw, f, indent=2) and the close of the file, which writes the
\* text from offset 0, then the [OK] line; the dump may fail on the way
WriteJson ==
    /\ pc = "dump"
    /\ \/ /\ trail' = Mark("file", "complete")
          /\ \E c \in WriteOver(data_dir[tickers[idx]], "edgar") :
                data_dir' = [data_dir EXCEPT ![tickers[idx]] = c]
          /\ pc' = "sleep"
       \/ /\ Raise("OSError", Mark("file", "partial"))
          /\ \E c \in PartOver(data_dir[tickers[idx]], "edgar_partial") :
                data_dir' = [data_dir EXCEPT ![tickers[idx]] = c]
    /\ UNCHANGED <<call, ret, idx, tickers, cik_map, facts_in, raw_out>>

\* time.sleep(0.25), then the next ticker
Sleep ==
    /\ pc = "sleep"
    /\ idx' = idx + 1
    /\ pc' = "loop"
    /\ UNCHANGED <<call, ret, tickers, cik_map, facts_in, raw_out, trail, data_dir>>

\* the list is exhausted: main returns
Finish ==
    /\ pc = "loop"
    /\ idx > Len(tickers)
    /\ pc' = "done"
    /\ UNCHANGED <<call, ret, idx, tickers, cik_map, facts_in, raw_out, trail, data_dir>>

\* the steps of main of build_fundamentals.py
MainStep ==
    \/ MakeDirs
    \/ SkipTicker
    \/ BeginTicker
    \/ FetchCompanyFacts
    \/ BuildRaw
    \/ OpenOutPath
    \/ WriteJson
    \/ Sleep
    \/ Finish

\* a file with the one row of the ticker
OneRowCsv ==
    [exists |-> TRUE,
     rows |-> <<DictReaderRow(Header, LineWith("revenue", <<"1", "0", "0">>))>>]

\* the run of build_metrics_json.py that may come at any moment of the
\* batch, each of its steps between any two steps of main: it writes
\* into the same directory
NextBatch ==
    \/ MainStep
    \/ BuildMetricsJsonMain({<< <<"a", "a", "p", "l">> >>}, {OneRowCsv})
    \/ MetricsOpen
    \/ MetricsDump

\* main is one sequential thread: it takes its next step whenever it has one
SpecBatch == InitBatch /\ [][NextBatch]_vars /\ WF_vars(MainStep)

\* the tickers handled so far are the head of the list, in order; a ticker
\* without a CIK is warned about and never fetched; no exception leaves the
\* loop; main opened a file only for a ticker that was fetched and built,
\* and data/<TICKER>.json holds a document of main only for such a ticker
BatchSafe ==
    /\ pc # "crashed"
    /\ Len(trail) <= Len(tickers)
    /\ \A i \in 1..Len(trail) :
          /\ trail[i].ticker = tickers[i]
          /\ trail[i].warned <=> ~Truthy(CikOf(cik_map, tickers[i]))
          /\ trail[i].warned => ~trail[i].fetch_tried /\ trail[i].file = "none"
          /\ trail[i].file # "none" => trail[i].fetched /\ trail[i].built
    /\ \A t \in TickerNames :
          data_dir[t] \in {"edgar", "edgar_partial"} =>
             \E i \in 1..Len(trail) :
                /\ trail[i].ticker = t
                /\ trail[i].fetched /\ trail[i].built
                /\ trail[i].file # "none"

\* C9: whatever the outcomes per ticker (no CIK mapping, HTTP error,
\* network failure, error while building or writing), every ticker of the
\* list is attempted in list order and main returns normally; a ticker
\* without a CIK mapping is skipped without a fetch, a failure does not
\* stop the tickers after it, and a file is written only after fetch and
\* build both succeeded.  A run has outcomes per ticker from the moment it
\* enters the loop, and from there it always comes to its normal end with
\* every ticker handled; the end of a run in os.makedirs, before the loop,
\* is not counted as a normal end.
C9_BatchAttemptsEveryTicker ==
    /\ []BatchSafe
    /\ (pc = "loop") ~> (pc = "done" /\ Len(trail) = Len(tickers))

\* the first ticker failed in its fetch and the second was written, over
\* a file of an earlier run that the first ticker left in place
C9_Witness ==
    /\ pc = "done"
    /\ Len(trail) = 2
    /\ trail[1].ticker = "AAPL"
    /\ trail[1].error = "ConnectionError"
    /\ data_dir["AAPL"] = "old"
    /\ trail[2].file = "complete"
    /\ data_dir["MSFT"] = "edgar"

====
